---- MODULE Spec2Model ----
(***************************************************************************)
(* gokomoot: main.go as a state machine.                                   *)
(*                                                                         *)
(* One process runs main -> Convert -> makeHTTPRequest -> extract ->       *)
(* json.Unmarshal -> jsonToGPX -> writeGPX.  The environment supplies the  *)
(* command line, the outcome of every HTTP attempt, the page text, the     *)
(* decoded record, the outcome of the file operations, and the moment the  *)
(* 30 s context deadline passes.                                           *)
(*                                                                         *)
(* Text is a sequence of one-character strings.  Coordinates are whole     *)
(* degrees (float64 in the source).  Time is not measured: the deadline    *)
(* can pass between any two steps, and a step that waits (a request in     *)
(* flight, a body being read, a sleep) is a state the process stays in     *)
(* until the step that ends it.                                            *)
(***************************************************************************)
EXTENDS Integers, Sequences, FiniteSets, TLC

\* ------------------------------------------------------------- bounds
\* Longest coordinate list of a decoded record.
MaxItems == 2
\* Longest page text of the extraction specification, in chunks.
MaxChunks == 4
\* Longest page text served in the pipeline specification, in chunks.
MaxPageChunks == 3

\* ----------------------------------------------------- configuration
\* DefaultConfig().MaxRetries
MaxRetries == 3
\* DefaultConfig().UserAgent
UserAgent == "komootgpx"

\* ------------------------------------------------------ text helpers
Min(S) == CHOOSE x \in S : \A y \in S : x <= y

RECURSIVE Flatten(_)
\* The concatenation of a sequence of texts.
Flatten(ss) == IF ss = <<>> THEN <<>> ELSE Head(ss) \o Flatten(Tail(ss))

\* s[from:] of Go, with a 0-based offset.
SliceFrom(s, from) == SubSeq(s, from + 1, Len(s))
\* s[from:to] of Go, with 0-based offsets.
Slice(s, from, to) == SubSeq(s, from + 1, to)

\* Whether sub occurs in s at 0-based offset i.
OccursAt(s, sub, i) ==
  /\ i >= 0
  /\ i + Len(sub) <= Len(s)
  /\ SubSeq(s, i + 1, i + Len(sub)) = sub

\* strings.Index: the offset of the first instance of sub in s, or -1.
Index(s, sub) ==
  LET hits == {i \in 0..Len(s) : OccursAt(s, sub, i)}
  IN IF hits = {} THEN -1 ELSE Min(hits)

RECURSIVE ReplaceAll(_, _, _)
\* strings.ReplaceAll for a non-empty old: the non-overlapping instances of
\* old, found left to right, replaced by new.
ReplaceAll(s, old, new) ==
  IF s = <<>> THEN <<>>
  ELSE IF OccursAt(s, old, 0)
       THEN new \o ReplaceAll(SliceFrom(s, Len(old)), old, new)
       ELSE <<Head(s)>> \o ReplaceAll(Tail(s), old, new)

\* The character references the model's texts can hold, with the text each
\* stands for.
Entities ==
  { [ref |-> <<"&", "q", "u", "o", "t", ";">>, text |-> <<"\"">>],
    [ref |-> <<"&", "#", "9", "2", ";">>,      text |-> <<"\\">>],
    [ref |-> <<"&", "a", "m", "p", ";">>,      text |-> <<"&">>] }

RECURSIVE UnescapeString(_)
\* html.UnescapeString: one pass, left to right; each character reference is
\* replaced by its text and the text it yields is not scanned again.
UnescapeString(s) ==
  IF s = <<>> THEN <<>>
  ELSE LET hit == {e \in Entities : OccursAt(s, e.ref, 0)}
       IN IF hit # {}
          THEN LET e == CHOOSE x \in hit : TRUE
               IN e.text \o UnescapeString(SliceFrom(s, Len(e.ref)))
          ELSE <<Head(s)>> \o UnescapeString(Tail(s))

\* ---------------------------------------------------------- extractor
startMarker ==
  <<"k", "m", "t", "B", "o", "o", "t", ".", "s", "e", "t",
    "P", "r", "o", "p", "s", "(", "\"">>
endMarker == <<"\"", ")", ";">>

NoError == [msg |-> "nil"]

\* The text in which the end marker is searched: htmlContent[startIdx:].
EndSearchOverlapping(htmlContent, startIdx) == SliceFrom(htmlContent, startIdx - 1)
EndSearchText(htmlContent, startIdx) == SliceFrom(htmlContent, startIdx)

\* The three rewrites of the slice, in the source's order.
TransformUnescapeLast(jsonStr) ==
  UnescapeString(
    ReplaceAll(ReplaceAll(jsonStr, <<"\\", "\\">>, <<"\\">>),
               <<"\\", "\"">>, <<"\"">>))
Transform(jsonStr) ==
  ReplaceAll(ReplaceAll(UnescapeString(jsonStr), <<"\\", "\\">>, <<"\\">>),
             <<"\\", "\"">>, <<"\"">>)

extractJSONFromHTML(htmlContent) ==
  LET found == Index(htmlContent, startMarker)
  IN IF found = -1
     THEN [data |-> <<>>,
           err |-> [msg |-> "start marker not found in HTML content"]]
     ELSE LET startIdx == found + Len(startMarker)
              endIdx == Index(EndSearchText(htmlContent, startIdx), endMarker)
          IN IF endIdx = -1
             THEN [data |-> <<>>,
                   err |-> [msg |-> "end marker not found in HTML content"]]
             ELSE [data |-> Transform(Slice(htmlContent, startIdx, startIdx + endIdx)),
                   err |-> NoError]

\* ------------------------------------------------------------- mapper
\* Point.Validate
ValidateLatOnly(p) ==
  IF p.lat < -90 \/ p.lat > 90
  THEN [msg |-> "invalid latitude", value |-> p.lat]
  ELSE NoError
Validate(p) ==
  IF p.lat < -90 \/ p.lat > 90
  THEN [msg |-> "invalid latitude", value |-> p.lat]
  ELSE IF p.lon < -180 \/ p.lon > 180
       THEN [msg |-> "invalid longitude", value |-> p.lon]
       ELSE NoError

\* len(coordinates) == 0
NeverEmpty(coordinates) == FALSE
IsEmpty(coordinates) == Len(coordinates) = 0

\* gpx.Tracks[0].Segments[0].Points = append(..., point)
PrependPoint(points, point) == <<point>> \o points
AppendPoint(points, point) == Append(points, point)

\* The document jsonToGPX builds around the points.
NewGPX(name, points) ==
  [version |-> "1.1",
   creator |-> UserAgent,
   name    |-> name,
   tracks  |-> << [name |-> name,
                   segments |-> << [points |-> points] >>] >>]

NoGPX == NewGPX("", <<>>)

RECURSIVE MapItems(_, _, _)
\* The loop of jsonToGPX from item i on, points being those appended so far.
MapItems(data, i, points) ==
  IF i > Len(data.items)
  THEN [gpx |-> NewGPX(data.name, points), err |-> NoError]
  ELSE LET item == data.items[i]
           point == [lat |-> item.lat, lon |-> item.lng, ele |-> item.alt]
           bad == Validate(point)
       IN IF bad # NoError
          THEN [gpx |-> NoGPX,
                err |-> [msg |-> "invalid point data", cause |-> bad]]
          ELSE MapItems(data, i + 1, AppendPoint(points, point))

jsonToGPX(data) ==
  IF IsEmpty(data.items)
  THEN [gpx |-> NoGPX,
        err |-> [msg |-> "no coordinates found in tour data", cause |-> NoError]]
  ELSE MapItems(data, 1, <<>>)

\* ------------------------------------------------------------- writer
Digit(d) == <<"0", "1", "2", "3", "4", "5", "6", "7", "8", "9">>[d + 1]

RECURSIVE FormatNat(_)
FormatNat(n) ==
  IF n < 10 THEN <<Digit(n)>> ELSE FormatNat(n \div 10) \o <<Digit(n % 10)>>

\* The encoder's text of a float64 holding a whole number.
FormatFloat(f) == IF f < 0 THEN <<"-">> \o FormatNat(-f) ELSE FormatNat(f)

Tok(tag, a, b) == [tag |-> tag, a |-> a, b |-> b]

\* A name element; omitempty drops it for the empty string.
NameTok(name) == IF name = "" THEN <<>> ELSE <<Tok("name", <<name>>, <<>>)>>

\* A trkpt element with its lat and lon attributes and, unless it is zero
\* (omitempty), its ele child.
PointToks(p) ==
  <<Tok("trkpt", FormatFloat(p.lat), FormatFloat(p.lon))>>
  \o (IF p.ele = 0 THEN <<>> ELSE <<Tok("ele", FormatFloat(p.ele), <<>>)>>)
  \o <<Tok("/trkpt", <<>>, <<>>)>>

RECURSIVE PointsToks(_)
PointsToks(points) ==
  IF points = <<>> THEN <<>>
  ELSE PointToks(Head(points)) \o PointsToks(Tail(points))

RECURSIVE SegmentsToks(_)
SegmentsToks(segments) ==
  IF segments = <<>> THEN <<>>
  ELSE <<Tok("trkseg", <<>>, <<>>)>> \o PointsToks(Head(segments).points)
       \o <<Tok("/trkseg", <<>>, <<>>)>> \o SegmentsToks(Tail(segments))

RECURSIVE TracksToks(_)
TracksToks(tracks) ==
  IF tracks = <<>> THEN <<>>
  ELSE <<Tok("trk", <<>>, <<>>)>> \o NameTok(Head(tracks).name)
       \o SegmentsToks(Head(tracks).segments)
       \o <<Tok("/trk", <<>>, <<>>)>> \o TracksToks(Tail(tracks))

\* encoder.Encode(gpx): the document as a sequence of XML elements.
Encode(gpx) ==
  <<Tok("gpx", <<gpx.version>>, <<gpx.creator>>)>> \o NameTok(gpx.name)
  \o TracksToks(gpx.tracks) \o <<Tok("/gpx", <<>>, <<>>)>>

\* xml.Header
Header == <<Tok("?xml", <<>>, <<>>)>>

NoFile == [exists |-> FALSE, content |-> <<>>]
OldFile == [exists |-> TRUE, content |-> <<Tok("old", <<>>, <<>>)>>]

\* What writeGPX can do to the file and return: os.Create fails and the
\* file is untouched; the file is truncated and the header write fails; the
\* header is written and Encode fails after part of the document; all of it
\* is written.
writeGPX(gpx, old) ==
  {[file |-> old, err |-> [msg |-> "error creating file"]]}
  \cup {[file |-> [exists |-> TRUE, content |-> <<>>],
         err |-> [msg |-> "error writing XML header"]]}
  \cup {[file |-> [exists |-> TRUE,
                   content |-> Header \o SubSeq(Encode(gpx), 1, n)],
         err |-> [msg |-> "error encoding GPX"]]
        : n \in 0..(Len(Encode(gpx)) - 1)}
  \cup {[file |-> [exists |-> TRUE, content |-> Header \o Encode(gpx)],
         err |-> NoError]}

\* -------------------------------------------------------------- inputs
\* The pieces page texts are built from.
ChunkSet ==
  { startMarker, endMarker, <<"\\">>, <<"\"">>, <<")", ";">>,
    <<"&", "q", "u", "o", "t", ";">>, <<"&", "#", "9", "2", ";">> }
PageChunkSet == { startMarker, endMarker, <<"x">> }

\* The texts of at most n chunks.
Texts(chunks, n) ==
  {Flatten(cs) : cs \in UNION {[1..k -> chunks] : k \in 0..n}}

\* The page texts a server can answer with in the pipeline specification.
Pages == Texts(PageChunkSet, MaxPageChunks)

Names == {"", "Test Tour"}
Lats == {-91, -90, 90, 91}
Lons == {-181, -180, 180, 181}
Alts == {0, 520}
Item(lat, lng, alt) == [lat |-> lat, lng |-> lng, alt |-> alt]
\* Coordinate items one of whose coordinates is at or just past its limit.
Items ==
  {Item(lat, 11, alt) : lat \in Lats, alt \in Alts}
  \cup {Item(48, lng, alt) : lng \in Lons, alt \in Alts}
\* The items of the pipeline specification: in range, latitude out of range,
\* longitude out of range.
PipelineItems == {Item(48, 11, 520), Item(91, 11, 0), Item(48, -181, 0)}

\* The part of KomootResponse the program reads: the tour name and the items.
RecordsOver(items, names) ==
  {[name |-> n, items |-> its] :
     n \in names, its \in UNION {[1..k -> items] : k \in 0..MaxItems}}
NoRecord == [name |-> "", items |-> <<>>]

\* --------------------------------------------------------------- state
VARIABLES
  nargs,       \* flag.NArg()
  output,      \* the -o flag
  urlOK,       \* whether http.NewRequestWithContext accepts the URL
  file0,       \* the output file before the run
  pc,          \* where the process is
  ctxDone,     \* whether the context's deadline has passed
  attempt,     \* the loop variable of makeHTTPRequest
  lastError,   \* lastError of makeHTTPRequest
  bodies,      \* the response bodies obtained, each with its number of Close calls
  defers,      \* the deferred resp.Body.Close() calls of makeHTTPRequest
  html,        \* the page text makeHTTPRequest returned
  jsonData,    \* the bytes extractJSONFromHTML returned
  komootResp,  \* the decoded record
  gpx,         \* the document jsonToGPX returned
  file,        \* the output file
  exitCode,    \* the process's exit code, -1 while it runs
  err,         \* the error main ended with
  trace        \* what has happened, in order (observation only)

vars ==
  <<nargs, output, urlOK, file0, pc, ctxDone, attempt, lastError, bodies,
    defers, html, jsonData, komootResp, gpx, file, exitCode, err, trace>>

inputs == <<nargs, output, urlOK, file0>>
fetchVars == <<attempt, lastError, bodies, defers>>
stageVars == <<html, jsonData, komootResp, gpx, file>>
endVars == <<exitCode, err>>

Init ==
  /\ nargs \in 0..2
  /\ output \in {"", "route.gpx"}
  /\ urlOK \in BOOLEAN
  /\ file0 \in {NoFile, OldFile}
  /\ pc = "main"
  /\ ctxDone = FALSE
  /\ attempt = 0
  /\ lastError = NoError
  /\ bodies = <<>>
  /\ defers = <<>>
  /\ html = <<>>
  /\ jsonData = <<>>
  /\ komootResp = NoRecord
  /\ gpx = NoGPX
  /\ file = file0
  /\ exitCode = -1
  /\ err = NoError
  /\ trace = <<>>

\* fmt.Errorf("...: %w", cause)
Wrap(msg, cause) == [msg |-> msg, cause |-> cause]

\* The process ends with exit code 1 and error e (os.Exit(1), logger.Fatalf).
Fatal(e) ==
  /\ pc' = "exit"
  /\ exitCode' = 1
  /\ err' = e

\* ---------------------------------------------------------------- main
\* main up to the call of makeHTTPRequest: the argument checks, the context
\* with its deadline, Convert's first statement.  The command line is taken
\* as flag.Parse delivers it (nargs, output); flag.Parse's own exits on -h or
\* on an unknown flag happen before any of this and are not modelled.
MainStart ==
  /\ pc = "main"
  /\ IF nargs # 1
     THEN /\ Fatal([msg |-> "Please provide exactly one Komoot URL"])
          /\ UNCHANGED trace
     ELSE IF output = ""
          THEN /\ Fatal([msg |-> "Please specify an output file using -o or --output"])
               /\ UNCHANGED trace
          ELSE /\ pc' = "loop"
               /\ trace' = Append(trace, "fetch")
               /\ UNCHANGED endVars
  /\ UNCHANGED <<inputs, ctxDone, fetchVars, stageVars>>

\* The deadline of context.WithTimeout passes; it can at any moment of the run.
Expire ==
  /\ pc \notin {"main", "exit"}
  /\ ~ctxDone
  /\ ctxDone' = TRUE
  /\ trace' = Append(trace, "deadline")
  /\ UNCHANGED <<inputs, pc, fetchVars, stageVars, endVars>>

\* ------------------------------------------------------ makeHTTPRequest
\* lastError = ...; continue
ContinueKeepFirst(e) ==
  /\ lastError' = IF lastError = NoError THEN e ELSE lastError
  /\ attempt' = attempt + 1
  /\ pc' = "loop"
Continue(e) ==
  /\ lastError' = e
  /\ attempt' = attempt + 1
  /\ pc' = "loop"

\* Whether an iteration starts with time.Sleep.
SleepsBeforeEvery(n) == TRUE
SleepsBefore(n) == n > 0

\* Whether a request bound to the context can still succeed.
RequestIgnoresContext(done) == TRUE
RequestCanSucceed(done) == ~done

RECURSIVE RunDefers(_, _)
\* The deferred calls run, last registered first: each closes its body.
RunDefersLastOnly(bs, ds) ==
  IF ds = <<>> THEN bs
  ELSE [bs EXCEPT ![ds[Len(ds)]].closed = @ + 1]
RunDefers(bs, ds) ==
  IF ds = <<>> THEN bs
  ELSE RunDefers([bs EXCEPT ![ds[Len(ds)]].closed = @ + 1],
                 SubSeq(ds, 1, Len(ds) - 1))

\* The head of an iteration: the loop condition holds; every iteration but
\* the first starts time.Sleep.
LoopHead ==
  /\ pc = "loop"
  /\ attempt < MaxRetries
  /\ IF SleepsBefore(attempt)
     THEN /\ pc' = "sleeping"
          /\ trace' = Append(trace, "sleep")
     ELSE /\ pc' = "newreq"
          /\ UNCHANGED trace
  /\ UNCHANGED <<inputs, ctxDone, fetchVars, stageVars, endVars>>

\* time.Sleep returns after the retry interval; it does not read the context.
SleepReturn ==
  /\ pc = "sleeping"
  /\ pc' = "newreq"
  /\ UNCHANGED <<inputs, ctxDone, fetchVars, stageVars, endVars, trace>>

\* http.NewRequestWithContext, the User-Agent header, the call of client.Do.
NewRequest ==
  /\ pc = "newreq"
  /\ IF ~urlOK
     THEN /\ Continue([msg |-> "error creating request", at |-> attempt])
          /\ trace' = Append(trace, "attempt")
     ELSE /\ pc' = "inflight"
          /\ trace' = trace \o <<"attempt", "request">>
          /\ UNCHANGED <<attempt, lastError>>
  /\ UNCHANGED <<inputs, ctxDone, bodies, defers, stageVars, endVars>>

\* client.Do returns: an error, or a response whose body is to be closed by
\* a deferred call; a status other than 200 ends the iteration.
DoReturn ==
  /\ pc = "inflight"
  /\ \/ /\ Continue([msg |-> "error making request", at |-> attempt])
        /\ UNCHANGED <<bodies, defers>>
     \/ /\ RequestCanSucceed(ctxDone)
        /\ \E status \in {200, 404} :
             /\ bodies' = Append(bodies, [status |-> status, closed |-> 0])
             /\ defers' = Append(defers, Len(bodies) + 1)
             /\ IF status # 200
                THEN Continue([msg |-> "unexpected status code", at |-> attempt])
                ELSE /\ pc' = "reading"
                     /\ UNCHANGED <<attempt, lastError>>
  /\ UNCHANGED <<inputs, ctxDone, stageVars, endVars, trace>>

\* io.ReadAll returns: an error, or the page text, which makeHTTPRequest
\* returns to Convert after running its deferred calls.
ReadReturn ==
  /\ pc = "reading"
  /\ \/ /\ Continue([msg |-> "error reading response body", at |-> attempt])
        /\ UNCHANGED <<bodies, defers, html, trace>>
     \/ /\ RequestCanSucceed(ctxDone)
        /\ \E page \in Pages : html' = page
        /\ bodies' = RunDefers(bodies, defers)
        /\ defers' = <<>>
        /\ pc' = "extract"
        /\ trace' = Append(trace, "body")
        /\ UNCHANGED <<attempt, lastError>>
  /\ UNCHANGED <<inputs, ctxDone, jsonData, komootResp, gpx, file, endVars>>

\* The loop condition fails: makeHTTPRequest runs its deferred calls and
\* returns the error, Convert wraps it, main ends the process.
RetriesExhausted ==
  /\ pc = "loop"
  /\ attempt >= MaxRetries
  /\ bodies' = RunDefers(bodies, defers)
  /\ defers' = <<>>
  /\ Fatal(Wrap("failed to download tour data",
                Wrap("all retry attempts failed", lastError)))
  /\ UNCHANGED <<inputs, ctxDone, attempt, lastError, stageVars, trace>>

\* -------------------------------------------------------------- Convert
\* What json.Unmarshal can make of the extracted bytes: an error (always for
\* no bytes at all), or a decoded record.  The JSON grammar is not modelled:
\* which record a text decodes to is the environment's choice, so "x" stands
\* for any payload text.
Unmarshal(data) ==
  {[resp |-> NoRecord, err |-> [msg |-> "invalid JSON"]]}
  \cup (IF data = <<>> THEN {}
        ELSE {[resp |-> r, err |-> NoError] :
                r \in RecordsOver(PipelineItems, {"Test Tour"})})

\* extractJSONFromHTML and the check of its error.
ExtractStageContinue ==
  /\ pc = "extract"
  /\ trace' = Append(trace, "extract")
  /\ LET r == extractJSONFromHTML(html)
     IN /\ jsonData' = r.data
        /\ pc' = "parse"
        /\ err' = IF r.err # NoError
                  THEN Wrap("failed to extract JSON data", r.err) ELSE err
        /\ UNCHANGED exitCode
  /\ UNCHANGED <<inputs, ctxDone, fetchVars, html, komootResp, gpx, file>>
ExtractStage ==
  /\ pc = "extract"
  /\ trace' = Append(trace, "extract")
  /\ LET r == extractJSONFromHTML(html)
     IN IF r.err # NoError
        THEN /\ Fatal(Wrap("failed to extract JSON data", r.err))
             /\ UNCHANGED jsonData
        ELSE /\ jsonData' = r.data
             /\ pc' = "parse"
             /\ UNCHANGED endVars
  /\ UNCHANGED <<inputs, ctxDone, fetchVars, html, komootResp, gpx, file>>

\* json.Unmarshal and the check of its error.
ParseStage ==
  /\ pc = "parse"
  /\ trace' = Append(trace, "parse")
  /\ \E r \in Unmarshal(jsonData) :
       IF r.err # NoError
       THEN /\ Fatal(Wrap("failed to parse JSON data", r.err))
            /\ UNCHANGED komootResp
       ELSE /\ komootResp' = r.resp
            /\ pc' = "map"
            /\ UNCHANGED endVars
  /\ UNCHANGED <<inputs, ctxDone, fetchVars, html, jsonData, gpx, file>>

\* jsonToGPX and the check of its error.
MapStage ==
  /\ pc = "map"
  /\ trace' = Append(trace, "map")
  /\ LET r == jsonToGPX(komootResp)
     IN IF r.err # NoError
        THEN /\ Fatal(Wrap("failed to convert to GPX", r.err))
             /\ UNCHANGED gpx
        ELSE /\ gpx' = r.gpx
             /\ pc' = "write"
             /\ UNCHANGED endVars
  /\ UNCHANGED <<inputs, ctxDone, fetchVars, html, jsonData, komootResp, file>>

\* writeGPX and the check of its error; on success Convert returns nil and
\* main returns.
WriteStage ==
  /\ pc = "write"
  /\ trace' = Append(trace, "write")
  /\ \E w \in writeGPX(gpx, file) :
       /\ file' = w.file
       /\ IF w.err # NoError
          THEN Fatal(Wrap("failed to write GPX file", w.err))
          ELSE /\ pc' = "exit"
               /\ exitCode' = 0
               /\ UNCHANGED err
  /\ UNCHANGED <<inputs, ctxDone, fetchVars, html, jsonData, komootResp, gpx>>

\* ------------------------------------------------------ specifications
Next ==
  \/ MainStart
  \/ Expire
  \/ LoopHead
  \/ SleepReturn
  \/ NewRequest
  \/ DoReturn
  \/ ReadReturn
  \/ RetriesExhausted
  \/ ExtractStage
  \/ ParseStage
  \/ MapStage
  \/ WriteStage

\* The whole program.
Spec == Init /\ [][Next]_vars

\* The state in which Convert holds the page text of a first attempt that
\* succeeded.
AfterFetch ==
  /\ nargs = 1
  /\ output = "route.gpx"
  /\ urlOK = TRUE
  /\ ctxDone = FALSE
  /\ attempt = 0
  /\ lastError = NoError
  /\ bodies = <<[status |-> 200, closed |-> 1]>>
  /\ defers = <<>>
  /\ gpx = NoGPX
  /\ file = file0
  /\ exitCode = -1
  /\ err = NoError

\* extractJSONFromHTML, and json.Unmarshal after it, on every page text of at
\* most MaxChunks chunks.
InitExtract ==
  /\ file0 = NoFile
  /\ AfterFetch
  /\ pc = "extract"
  /\ html \in Texts(ChunkSet, MaxChunks)
  /\ jsonData = <<>>
  /\ komootResp = NoRecord
  /\ trace = <<"fetch", "attempt", "request", "body">>

NextExtract == ExtractStage \/ ParseStage

SpecExtract == InitExtract /\ [][NextExtract]_vars

\* jsonToGPX and writeGPX on every record of at most MaxItems items.
InitMap ==
  /\ file0 \in {NoFile, OldFile}
  /\ AfterFetch
  /\ pc = "map"
  /\ html = startMarker \o <<"x">> \o endMarker
  /\ jsonData = <<"x">>
  /\ komootResp \in RecordsOver(Items, Names)
  /\ trace = <<"fetch", "attempt", "request", "body", "extract", "parse">>

NextMap == MapStage \/ WriteStage

SpecMap == InitMap /\ [][NextMap]_vars

\* ------------------------------------------------------- observations
Range(f) == {f[i] : i \in DOMAIN f}

\* The events of the trace that are in S, in order.
Filter(seq, S) == LET In(e) == e \in S IN SelectSeq(seq, In)

InTrace(e) == e \in Range(trace)
Count(e) == Len(Filter(trace, {e}))
Last(seq) == seq[Len(seq)]
IsPrefix(s, t) == Len(s) <= Len(t) /\ SubSeq(t, 1, Len(s)) = s

\* makeHTTPRequest returned an error and the process ended with it.
FetchFailed ==
  /\ pc = "exit"
  /\ exitCode = 1
  /\ err.msg = "failed to download tour data"

\* makeHTTPRequest has returned.
Returned == InTrace("body") \/ FetchFailed

\* Attempts and sleeps, in order.
FetchTrace == Filter(trace, {"attempt", "sleep"})

\* n attempts with one sleep between each two.
Alternation(n) ==
  [i \in 1..(2 * n - 1) |-> IF i % 2 = 1 THEN "attempt" ELSE "sleep"]

Stages == <<"fetch", "extract", "parse", "map", "write">>
StageTrace == Filter(trace, Range(Stages))
StageMsg ==
  [fetch   |-> "failed to download tour data",
   extract |-> "failed to extract JSON data",
   parse   |-> "failed to parse JSON data",
   map     |-> "failed to convert to GPX",
   write   |-> "failed to write GPX file"]

\* The offsets of the start marker in t, and of the end marker at or after
\* the end of the first start marker.
StartsIn(t) == {i \in 0..Len(t) : OccursAt(t, startMarker, i)}
EndsAfterStart(t) ==
  {j \in 0..Len(t) :
     /\ OccursAt(t, endMarker, j)
     /\ j >= Min(StartsIn(t)) + Len(startMarker)}
\* The text between the end of the first start marker and the first end
\* marker after it.
Between(t) ==
  SubSeq(t, Min(StartsIn(t)) + Len(startMarker) + 1, Min(EndsAfterStart(t)))

InRange(item) ==
  /\ -90 <= item.lat /\ item.lat <= 90
  /\ -180 <= item.lng /\ item.lng <= 180
\* The positions of the out-of-range items of a record.
BadItems(r) == {i \in DOMAIN r.items : ~InRange(r.items[i])}
\* The points of a record's items, in the items' order.
PointsOf(r) ==
  [i \in DOMAIN r.items |->
     [lat |-> r.items[i].lat, lon |-> r.items[i].lng, ele |-> r.items[i].alt]]
\* The points of the document's one segment.
GpxPoints == gpx.tracks[1].segments[1].points

DigitValue(c) == CHOOSE d \in 0..9 : Digit(d) = c
RECURSIVE ParseNat(_)
ParseNat(cs) ==
  IF cs = <<>> THEN 0
  ELSE 10 * ParseNat(SubSeq(cs, 1, Len(cs) - 1)) + DigitValue(Last(cs))
\* The number a decimal text stands for.
ParseFloat(cs) ==
  IF cs # <<>> /\ Head(cs) = "-" THEN 0 - ParseNat(Tail(cs)) ELSE ParseNat(cs)

RECURSIVE ParsePoints(_, _)
\* The points an XML decoder reads from the elements toks, after acc: a
\* trkpt element starts a point with elevation 0, an ele element sets the
\* elevation of the point it is in.
ParsePoints(toks, acc) ==
  IF toks = <<>> THEN acc
  ELSE LET t == Head(toks)
       IN IF t.tag = "trkpt"
          THEN ParsePoints(Tail(toks),
                 Append(acc, [lat |-> ParseFloat(t.a), lon |-> ParseFloat(t.b),
                              ele |-> 0]))
          ELSE IF t.tag = "ele"
               THEN ParsePoints(Tail(toks),
                      [acc EXCEPT ![Len(acc)].ele = ParseFloat(t.a)])
               ELSE ParsePoints(Tail(toks), acc)

\* --------------------------------------------------------------- claims

\* C1: when every attempt fails, makeHTTPRequest makes exactly MaxRetries
\* attempts with exactly one sleep between each two consecutive attempts
\* (none before the first, none after the last) and returns an error that
\* wraps the error of the last attempt.
C1_ExhaustedRetries ==
  FetchFailed =>
    /\ FetchTrace = Alternation(MaxRetries)
    /\ err.cause.msg = "all retry attempts failed"
    /\ err.cause.cause.at = MaxRetries - 1
    /\ ~InTrace("body")

C1_Witness ==
  /\ FetchFailed
  /\ Count("sleep") = MaxRetries - 1
  /\ err.cause.cause = [msg |-> "unexpected status code", at |-> MaxRetries - 1]
  /\ Len(bodies) = 1

\* C2: a record with an out-of-range item makes Convert fail with the
\* conversion error of the first such item, the output file untouched; a
\* file that was written holds only in-range points, and the document it was
\* written from holds every source point unchanged.
C2_OutOfRangeRejected ==
  /\ (InTrace("map") /\ BadItems(komootResp) # {}) =>
       LET first == komootResp.items[Min(BadItems(komootResp))]
       IN /\ pc = "exit"
          /\ exitCode = 1
          /\ err.msg = "failed to convert to GPX"
          /\ err.cause.msg = "invalid point data"
          /\ err.cause.cause =
               IF first.lat < -90 \/ first.lat > 90
               THEN [msg |-> "invalid latitude", value |-> first.lat]
               ELSE [msg |-> "invalid longitude", value |-> first.lng]
          /\ ~InTrace("write")
          /\ file = file0
  /\ file # file0 =>
       /\ BadItems(komootResp) = {}
       /\ GpxPoints = PointsOf(komootResp)
       /\ \A p \in Range(ParsePoints(file.content, <<>>)) :
            InRange([lat |-> p.lat, lng |-> p.lon])

C2_Witness ==
  /\ InTrace("map")
  /\ Len(komootResp.items) = 2
  /\ BadItems(komootResp) = {2}
  /\ komootResp.items[2].lng = 181
  /\ pc = "exit"
  /\ file0 = OldFile

\* C3: a record with no coordinate items makes jsonToGPX fail with a
\* conversion error; writeGPX is not called for it and no document with an
\* empty segment is ever produced.
C3_EmptyListRejected ==
  /\ (InTrace("map") /\ komootResp.items = <<>>) =>
       /\ pc = "exit"
       /\ exitCode = 1
       /\ err = Wrap("failed to convert to GPX",
                     [msg |-> "no coordinates found in tour data",
                      cause |-> NoError])
       /\ ~InTrace("write")
       /\ file = file0
  /\ (pc = "write" \/ InTrace("write")) => GpxPoints # <<>>

C3_Witness ==
  /\ InTrace("map")
  /\ komootResp.items = <<>>
  /\ pc = "exit"

\* C4: page text with the start marker and no end marker after the end of
\* the start marker makes extraction fail with "end marker not found", also
\* when an end marker stands before the start marker, and json.Unmarshal is
\* not called.
C4_MissingEndMarker ==
  (InTrace("extract") /\ StartsIn(html) # {} /\ EndsAfterStart(html) = {}) =>
    /\ pc = "exit"
    /\ exitCode = 1
    /\ err = Wrap("failed to extract JSON data",
                  [msg |-> "end marker not found in HTML content"])
    /\ ~InTrace("parse")
    /\ jsonData = <<>>
    /\ file = file0

C4_Witness ==
  /\ InTrace("extract")
  /\ StartsIn(html) # {}
  /\ EndsAfterStart(html) = {}
  /\ Index(html, endMarker) # -1
  /\ Index(html, endMarker) < Min(StartsIn(html))

\* C5: for a record with a non-empty list of in-range items the mapper
\* returns a document of one track, named with the tour name, of one segment
\* whose points are the items in their order; the document's encoding, and
\* the file written from it, parse back to the same points.
C5_MapperPreservesOrder ==
  (/\ InTrace("map")
   /\ komootResp.items # <<>>
   /\ BadItems(komootResp) = {}) =>
    /\ pc \in {"write", "exit"}
    /\ Len(gpx.tracks) = 1
    /\ Len(gpx.tracks[1].segments) = 1
    /\ gpx.tracks[1].name = komootResp.name
    /\ GpxPoints = PointsOf(komootResp)
    /\ ParsePoints(Encode(gpx), <<>>) = PointsOf(komootResp)
    /\ exitCode = 0 => ParsePoints(file.content, <<>>) = PointsOf(komootResp)

C5_Witness ==
  /\ exitCode = 0
  /\ komootResp.name = "Test Tour"
  /\ Len(komootResp.items) = 2
  /\ komootResp.items[1] = Item(-90, 11, 0)
  /\ komootResp.items[2] = Item(48, 180, 520)

\* C6 as stated: whenever the deadline has passed during a run, Convert
\* returns an error, the process exits with 1 and no file is produced.
C6_DeadlineGovernsPipeline ==
  (pc = "exit" /\ ctxDone) => (exitCode = 1 /\ file = file0)

\* C6 as amended: the deadline acts on the HTTP attempts only.  No attempt
\* returns a body once the deadline has passed; if it passes before the fetch
\* has returned a body, no later stage runs, the file is untouched and the
\* process can only end with the fetch error; a sleep is never cut short: an
\* attempt follows every sleep.
C6_DeadlineGovernsFetchOnly ==
  /\ \A i, j \in DOMAIN trace :
       (trace[i] = "deadline" /\ trace[j] = "body") => j < i
  /\ (InTrace("deadline") /\ ~InTrace("body")) =>
       /\ StageTrace = <<"fetch">>
       /\ file = file0
       /\ exitCode # 0
       /\ pc = "exit" => FetchFailed
  /\ (pc \notin {"sleeping", "newreq"} /\ FetchTrace # <<>>) =>
       Last(FetchTrace) # "sleep"

C6_Witness ==
  /\ FetchFailed
  /\ \E i \in DOMAIN trace :
       /\ i + 2 <= Len(trace)
       /\ trace[i] = "sleep"
       /\ trace[i + 1] = "deadline"
       /\ trace[i + 2] = "attempt"

C8_ExtractReference ==
  (InTrace("extract") /\ StartsIn(html) # {} /\ EndsAfterStart(html) # {}) =>
    LET unescaped == UnescapeString(Between(html))
        unslashed == ReplaceAll(unescaped, <<"\\", "\\">>, <<"\\">>)
        unquoted  == ReplaceAll(unslashed, <<"\\", "\"">>, <<"\"">>)
    IN /\ jsonData = unquoted
       /\ Last(trace) = "extract" => (pc = "parse" /\ err = NoError)

C8_Witness ==
  /\ InTrace("extract")
  /\ html = startMarker \o <<"&", "#", "9", "2", ";">> \o <<"\"">> \o endMarker
  /\ jsonData = <<"\"">>

\* C9: the first attempt k that receives status 200 and reads the body ends
\* makeHTTPRequest: k requests and k - 1 sleeps were made, nothing of the
\* fetch follows the body, and no fetch error is returned; a failure of any
\* kind at iteration a is followed by iteration a + 1, and the fetch gives up
\* only when MaxRetries iterations have failed.
C9_FirstSuccessReturns ==
  /\ InTrace("body") =>
       /\ attempt + 1 \in 1..MaxRetries
       /\ Count("request") = attempt + 1
       /\ Count("attempt") = attempt + 1
       /\ Count("sleep") = attempt
       /\ Count("body") = 1
       /\ Last(Filter(trace, {"attempt", "request", "sleep", "body"})) = "body"
       /\ err.msg # "failed to download tour data"
  /\ lastError # NoError =>
       /\ lastError.at = attempt - 1
       /\ lastError.msg \in {"error creating request", "error making request",
                             "unexpected status code",
                             "error reading response body"}
  /\ FetchFailed => (attempt = MaxRetries /\ Count("attempt") = MaxRetries)

C9_Witness ==
  /\ InTrace("body")
  /\ attempt + 1 = MaxRetries
  /\ lastError = [msg |-> "error reading response body", at |-> attempt - 1]
  /\ Len(bodies) = MaxRetries

\* C10: every response body obtained is closed exactly once by the time
\* makeHTTPRequest returns, on success and on exhaustion; none is closed
\* twice; at most MaxRetries bodies are open at once.
C10_BodiesClosedOnce ==
  /\ \A i \in DOMAIN bodies : bodies[i].closed \in {0, 1}
  /\ Cardinality({i \in DOMAIN bodies : bodies[i].closed = 0}) <= MaxRetries
  /\ Returned =>
       /\ \A i \in DOMAIN bodies : bodies[i].closed = 1
       /\ defers = <<>>
  /\ ~Returned => defers = [i \in DOMAIN bodies |-> i]

C10_Witness ==
  /\ FetchFailed
  /\ Len(bodies) = MaxRetries
  /\ \A i \in DOMAIN bodies : bodies[i].closed = 1
  /\ lastError.msg = "error reading response body"

====
